---- MODULE Spec2Model ----
(***************************************************************************)
(* A model of fetch_packages.py: the retrying request executor             *)
(* (make_request), the list and detail fetchers built on it, and the       *)
(* URL-pattern extraction github_info.                                     *)
(*                                                                         *)
(* One behaviour is one run of one fetcher (variable op) over a database   *)
(* left by earlier runs (db0).  A batch fetcher is handed every row of its *)
(* table, in table order.  The network is the environment: every attempt   *)
(* of a request nondeterministically returns a value or raises.  Logging   *)
(* is not modelled.                                                        *)
(***************************************************************************)
EXTENDS Integers, Sequences, FiniteSets, TLC

VARIABLES
    op,             \* the fetcher this run executes
    pc,             \* "loop" | "wait" | "done" | "raised" | "info"
    err,            \* name of the exception that left the fetcher, "" if none
    npm,            \* NPMPackage table: sequence of rows, in insertion order
    pypi,           \* PyPIPackage table
    db0,            \* (history) the two tables as the run found them
    idx,            \* position of the batch loop (1-based row of the table)
    keep_fetching,  \* fetch_packagenames_from_libraryio locals
    page_no,
    count_retrieved,
    package_count,
    package_json,   \* fetch_pypi_data local; NULL while unbound
    mr_pc,          \* make_request: "idle" | "loop" | "returned" | "raised"
    method,         \* make_request's first argument
    try_again,      \* make_request locals
    attempts,
    res,
    calls,          \* (history) invocations of method in this make_request
    sleeps,         \* (history) time.sleep calls in this make_request
    fails,          \* (history) transient failures in this make_request
    last,           \* (history) class of the latest attempt's outcome
    last_val,       \* (history) value the latest attempt returned, or NULL
    net,            \* (history) requests issued: <<endpoint, arg, via_executor>>
    parse_failed,   \* (history) rows whose detail response did not parse
    url,            \* github_info harness: the argument
    gh_info         \* github_info harness: the outcome

mrvars == <<mr_pc, method, try_again, attempts, res, calls, sleeps, fails, last, last_val>>
libvars == <<keep_fetching, page_no, count_retrieved, package_count>>
infovars == <<url, gh_info>>
vars == <<op, pc, err, npm, pypi, db0, idx, libvars, package_json, mrvars, net,
          parse_failed, infovars>>

----------------------------------------------------------------------------
(* Optional values: Python's None / a NULL column is the empty tuple.      *)

NULL == <<>>
Some(v) == <<v>>
IsNull(x) == Len(x) = 0
Val(x) == x[1]

Min(S) == CHOOSE x \in S : \A y \in S : x <= y
Max(S) == CHOOSE x \in S : \A y \in S : x >= y

RECURSIVE SeqsUpTo(_, _)
SeqsUpTo(S, n) ==
    IF n = 0 THEN {<<>>}
    ELSE LET shorter == SeqsUpTo(S, n - 1)
         IN shorter \cup {Append(s, x) : s \in {t \in shorter : Len(t) = n - 1}, x \in S}

----------------------------------------------------------------------------
(* Bounds of the model.                                                    *)

MaxPageItems == 2   \* entries of one listing / search page
MaxUrlLen == 7      \* tokens of a URL handed to github_info alone

----------------------------------------------------------------------------
(* URLs are sequences of tokens.  "/" is the separator, "github.com" the   *)
(* marker; "githubXcom" stands for a text the regular expression           *)
(* 'github.com' matches (its dot matches any character) that does not      *)
(* contain the literal marker.  The other tokens contain neither.          *)

MARKER == "github.com"
RegexMatches == {"github.com", "githubXcom"}
UrlTokens == {"github.com", "githubXcom", "/", "foo", "bar"}
AllUrls == SeqsUpTo(UrlTokens, MaxUrlLen)

GithubUrl == <<"https:", "/", "/", "github.com", "/", "foo", "/", "bar">>
OwnerOnlyUrl == <<"https:", "/", "/", "github.com", "/", "foo">>
OtherUrl == <<"https:", "/", "/", "example.com", "/", "foo">>
\* repository_url is optional: NULL on a record a name-only list fetch created
RepoUrls == {NULL, Some(GithubUrl), Some(OwnerOnlyUrl), Some(OtherUrl)}

----------------------------------------------------------------------------
(* The two tables.                                                         *)

NpmNames == {"a", "b"}

NpmRow(n, u, pg, rd) ==
    [name |-> n, repository_url |-> u, page_no |-> pg, readme |-> rd,
     description |-> NULL, day_download_count |-> NULL,
     week_download_count |-> NULL, month_download_count |-> NULL,
     dependents |-> NULL, dependencies |-> NULL,
     stargazers_count |-> NULL, forks_count |-> NULL, open_issues_count |-> NULL,
     subscribers_count |-> NULL, github_contributions_count |-> NULL,
     has_wiki |-> NULL]

InitialNpmRows ==
    {NpmRow(n, u, IF IsNull(u) THEN NULL ELSE Some(0), rd) :
        n \in NpmNames, u \in RepoUrls, rd \in {NULL, Some("Hello")}}

NBSP == "xa0"
PypiNames == {<<"x">>, <<"x", " ", "y">>}
LinkTexts == {<<"x">>, <<"x", " ", "y">>, <<"x", NBSP, "y">>}

PypiRow(n, text, count) ==
    [name |-> n, readme |-> text, description |-> text,
     day_download_count |-> count, week_download_count |-> count,
     month_download_count |-> count]

InitialPypiRows ==
    {PypiRow(n, NULL, NULL) : n \in PypiNames}
        \cup {PypiRow(n, Some("old"), Some(5)) : n \in PypiNames}

Names(tbl) == {tbl[i].name : i \in 1..Len(tbl)}
NoDuplicateNames(tbl) ==
    \A i, j \in 1..Len(tbl) : tbl[i].name = tbl[j].name => i = j

\* every table over the given rows: name is unique within a table
TablesOf(rows) ==
    {t \in SeqsUpTo(rows, Cardinality({r.name : r \in rows})) : NoDuplicateNames(t)}

\* Model.get_or_create(**kwargs): the row matching every given field if there
\* is one; otherwise INSERT, which the unique index on name refuses.
Matches(row, kwargs) == \A f \in DOMAIN kwargs : row[f] = kwargs[f]
get_or_create(tbl, kwargs, fresh) ==
    IF \E i \in 1..Len(tbl) : Matches(tbl[i], kwargs)
    THEN [tbl |-> tbl, exc |-> ""]
    ELSE IF kwargs.name \in Names(tbl)
    THEN [tbl |-> tbl, exc |-> "IntegrityError"]
    ELSE [tbl |-> Append(tbl, fresh), exc |-> ""]

----------------------------------------------------------------------------
(* What a call returns: a requests Response (it has a status_code) or the  *)
(* decoded data slumber hands back (it has none).                          *)

Response(status, body) == [kind |-> "response", status_code |-> status, body |-> body]
Data(body) == [kind |-> "data", status_code |-> 0, body |-> Some(body)]
HasStatusCode(v) == v.kind = "response"

SearchItems == [name : NpmNames, repository_url : {NULL, Some(GithubUrl)}]
SearchPages == SeqsUpTo(SearchItems, MaxPageItems)

NpmIndexDocs ==
    {[json |-> TRUE, rows |-> Some(r)] : r \in SeqsUpTo(NpmNames, MaxPageItems)}
        \cup {[json |-> FALSE, rows |-> NULL], [json |-> TRUE, rows |-> NULL]}

Links == {NULL} \cup {Some(t) : t \in LinkTexts}
PypiIndexPages ==
    {[table |-> TRUE, rows |-> r] : r \in SeqsUpTo(Links, MaxPageItems)}
        \cup {[table |-> FALSE, rows |-> <<>>]}

InfoDoc(k) ==
    [last_day |-> k, last_week |-> 7 * k, last_month |-> 30 * k,
     summary |-> IF k = 1 THEN "summary1" ELSE "summary2",
     description |-> IF k = 1 THEN "description1" ELSE "description2"]
PypiJsonDocs ==
    {[json |-> TRUE, info |-> Some(InfoDoc(k))] : k \in {1, 2}}
        \cup {[json |-> FALSE, info |-> NULL], [json |-> TRUE, info |-> NULL]}

\* the package page: what each selector finds (NULL: nothing), the three
\* download counts as the character strings the page shows
NpmPage(rd, day) ==
    [readme |-> rd, description |-> Some("about"),
     daily |-> Some(day), weekly |-> Some(<<"1", ",", "2", "3", "4">>),
     monthly |-> Some(<<>>), dependents |-> <<"dep">>, dependencies |-> <<>>]
NpmPageDocs ==
    {NpmPage(rd, day) : rd \in {NULL, Some("<div>")}, day \in {<<"7">>, <<",">>}}

ReadmeDocs == {[content |-> c] : c \in {NULL, Some("SGVsbG8="), Some("V29ybGQ=")}}

StatsDoc(k) ==
    [stargazers_count |-> k, forks_count |-> k + 1, open_issues_count |-> k + 2,
     subscribers_count |-> k + 3, github_contributions_count |-> k + 4,
     has_wiki |-> (k = 1)]
StatsDocs == {StatsDoc(k) : k \in {1, 2}}

ErrorStatuses == {404, 500}

Method(api, endpoint, arg) ==
    [callable |-> TRUE, api |-> api, endpoint |-> endpoint, arg |-> arg]
\* a value that is not a function: what fetch_github_stats hands over
NotCallable(arg) ==
    [callable |-> FALSE, api |-> "value", endpoint |-> "stats", arg |-> arg]
NoMethod == [callable |-> FALSE, api |-> "", endpoint |-> "", arg |-> 0]

Bodies(endpoint) ==
    CASE endpoint = "search" -> SearchPages
      [] endpoint = "readme" -> ReadmeDocs
      [] endpoint = "stats" -> StatsDocs
      [] endpoint = "npm_all_docs" -> NpmIndexDocs
      [] endpoint = "npm_page" -> NpmPageDocs
      [] endpoint = "pypi_index" -> PypiIndexPages
      [] endpoint = "pypi_json" -> PypiJsonDocs
      [] OTHER -> {}

Returns(m) ==
    IF ~m.callable THEN {}
    ELSE IF m.api = "slumber" THEN {Data(b) : b \in Bodies(m.endpoint)}
    ELSE {Response(200, Some(b)) : b \in Bodies(m.endpoint)}
            \cup {Response(s, NULL) : s \in ErrorStatuses}

Transient == {"ConnectionError", "ReadTimeout"}
Permanent == {"HttpNotFoundError", "HttpServerError"}

Raises(m) ==
    IF ~m.callable THEN {"TypeError"}
    ELSE IF m.api = "slumber" THEN Permanent \cup Transient
    ELSE Transient

----------------------------------------------------------------------------
(* make_request(method, *args, **kwargs)                                   *)

MAX_ATTEMPTS == 5

\* line 39: the while condition
LoopGuard == try_again /\ attempts < MAX_ATTEMPTS

\* ResAfterReturn with the status test lost: every response object is
\* dropped, a 200 one too
ResAfterReturnNoStatusTest(v) ==
    IF HasStatusCode(v) THEN NULL ELSE Some(v)

\* lines 41-44: what res becomes when method returned v
ResAfterReturn(v) ==
    IF HasStatusCode(v) /\ v.status_code \notin {200} THEN NULL ELSE Some(v)

\* TryAgainAfterRaise with line 51 lost: a server error is retried
TryAgainAfterRaiseRetryServerError(e, ta) ==
    IF e = "HttpNotFoundError" THEN FALSE ELSE ta

\* lines 46-55: the except clauses; try_again after exception e was caught
TryAgainAfterRaise(e, ta) == IF e \in Permanent THEN FALSE ELSE ta

\* the caller enters make_request: lines 27-31
Enter(m) ==
    /\ mr_pc' = "loop"
    /\ method' = m
    /\ try_again' = TRUE
    /\ attempts' = 0
    /\ res' = NULL
    /\ calls' = 0
    /\ sleeps' = 0
    /\ fails' = 0
    /\ last' = ""
    /\ last_val' = NULL

\* lines 57-60: the pause that ends an iteration
Pause(ta) ==
    /\ sleeps' = (IF ta THEN sleeps + 1 ELSE sleeps)
    /\ attempts' = (IF ta THEN attempts + 1 ELSE attempts)

\* one iteration of the while loop, lines 39-60
make_request_attempt ==
    /\ mr_pc = "loop"
    /\ LoopGuard
    /\ calls' = calls + 1
    /\ \/ \E v \in Returns(method) :
            /\ res' = ResAfterReturn(v)
            /\ try_again' = FALSE
            /\ Pause(FALSE)
            /\ last' = (IF HasStatusCode(v) /\ v.status_code # 200
                        THEN "status" ELSE "ok")
            /\ last_val' = Some(v)
            /\ UNCHANGED <<mr_pc, pc, err, fails>>
       \/ \E e \in Raises(method) :
            /\ last' = e
            /\ last_val' = NULL
            /\ IF e \in Permanent \cup Transient
               THEN /\ try_again' = TryAgainAfterRaise(e, try_again)
                    /\ Pause(TryAgainAfterRaise(e, try_again))
                    /\ fails' = (IF e \in Transient THEN fails + 1 ELSE fails)
                    /\ UNCHANGED <<mr_pc, pc, err, res>>
               ELSE \* no except clause matches: the exception leaves
                    \* make_request and the fetcher that called it
                    /\ mr_pc' = "raised"
                    /\ pc' = "raised"
                    /\ err' = e
                    /\ UNCHANGED <<try_again, attempts, sleeps, fails, res>>
    /\ UNCHANGED <<op, npm, pypi, db0, idx, libvars, package_json, method, net,
                   parse_failed, infovars>>

----------------------------------------------------------------------------
(* github_info(url)                                                        *)

HasMarker(text) == \E i \in 1..Len(text) : text[i] = MARKER

\* line 99: re.sub('^.*(?:github.com)', '', url); .* is greedy, so the text
\* goes up to and including the last match
StripMarker(text) ==
    LET m == {i \in 1..Len(text) : text[i] \in RegexMatches}
    IN IF m = {} THEN text ELSE SubSeq(text, Max(m) + 1, Len(text))

\* str.split('/', 2): at most three parts
Split2(text) ==
    LET sl == {i \in 1..Len(text) : text[i] = "/"}
    IN IF sl = {} THEN <<text>>
       ELSE LET s1 == Min(sl)
                rest == sl \ {s1}
            IN IF rest = {}
               THEN <<SubSeq(text, 1, s1 - 1), SubSeq(text, s1 + 1, Len(text))>>
               ELSE <<SubSeq(text, 1, s1 - 1),
                      SubSeq(text, s1 + 1, Min(rest) - 1),
                      SubSeq(text, Min(rest) + 1, Len(text))>>

InfoPair(user, repo_name) ==
    [kind |-> "pair", user |-> user, repo_name |-> repo_name, exc |-> ""]
InfoNone == [kind |-> "none", user |-> <<>>, repo_name |-> <<>>, exc |-> ""]
InfoRaise(e) == [kind |-> "raise", user |-> <<>>, repo_name |-> <<>>, exc |-> e]

\* u is the optional repository_url: NULL or Some(text)
github_info(u) ==
    IF IsNull(u)
    THEN InfoRaise("TypeError")          \* line 98: 'github.com' in None
    ELSE IF HasMarker(Val(u))
    THEN LET parts == Split2(StripMarker(Val(u)))
         IN IF Len(parts) = 3
            THEN InfoPair(parts[2], parts[3])
            ELSE InfoRaise("ValueError") \* line 101: unpacking fewer than 3
    ELSE InfoNone

----------------------------------------------------------------------------
(* The fetchers.  Each is split where it calls make_request: the part up   *)
(* to the call is an action, the part after it is the continuation that    *)
(* make_request_return runs on the locals Cur.                             *)

Cur ==
    [pc |-> pc, err |-> err, npm |-> npm, pypi |-> pypi, idx |-> idx,
     package_json |-> package_json, keep_fetching |-> keep_fetching,
     page_no |-> page_no, count_retrieved |-> count_retrieved,
     parse_failed |-> parse_failed]

Raise(s, e) == [s EXCEPT !.pc = "raised", !.err = e]
NextItem(s) == [s EXCEPT !.pc = "loop", !.idx = @ + 1]
Return(s) == [s EXCEPT !.pc = "done"]

\* the value make_request returned, and the document it carries
Result == Val(res)
Doc == Val(Result.body)

\* line 16: the module imports NPMPackage and PyPIPackage; the name Package
\* that line 83 uses is bound nowhere
PackageBound == FALSE

\* lines 83-87
LibCreate(tbl, p, pg) ==
    get_or_create(tbl,
        [name |-> p.name, repository_url |-> p.repository_url, page_no |-> Some(pg)],
        NpmRow(p.name, p.repository_url, Some(pg), NULL))

RECURSIVE LibCreateAll(_, _, _)
LibCreateAll(tbl, items, pg) ==
    IF items = <<>> THEN [tbl |-> tbl, exc |-> ""]
    ELSE LET r == LibCreate(tbl, Head(items), pg)
         IN IF r.exc # "" THEN r ELSE LibCreateAll(r.tbl, Tail(items), pg)

\* lines 75-79
fetch_packagenames_from_libraryio ==
    /\ op = "lib"
    /\ pc = "loop"
    /\ keep_fetching
    /\ Enter(Method("slumber", "search", page_no))
    /\ pc' = "wait"
    /\ net' = Append(net, <<"search", page_no, TRUE>>)
    /\ UNCHANGED <<op, err, npm, pypi, db0, idx, libvars, package_json,
                   parse_failed, infovars>>

\* lines 81-94
fetch_packagenames_from_libraryio_apply(s) ==
    IF ~IsNull(res) /\ Len(Doc) > 0 /\ ~PackageBound
    THEN Raise(s, "NameError")                    \* line 83
    ELSE IF IsNull(res)
    THEN Raise(s, "TypeError")                    \* line 89: len(None)
    ELSE LET r == LibCreateAll(s.npm, Doc, s.page_no)
             n == s.count_retrieved + Len(Doc)
         IN IF r.exc # ""
            THEN Raise([s EXCEPT !.npm = r.tbl], r.exc)
            ELSE [s EXCEPT !.pc = "loop",
                           !.npm = r.tbl,
                           !.count_retrieved = n,
                           !.page_no = @ + 1,
                           !.keep_fetching =
                               (Len(Doc) > 0) /\ (package_count = -1 \/ n < package_count)]

\* NpmListCreate as an insert-or-replace: a row already there is written
\* over with a fresh one
NpmListCreateReplace(tbl, id) ==
    IF id \in Names(tbl)
    THEN [tbl |-> [i \in 1..Len(tbl) |->
                      IF tbl[i].name = id THEN NpmRow(id, NULL, NULL, NULL) ELSE tbl[i]],
          exc |-> ""]
    ELSE [tbl |-> Append(tbl, NpmRow(id, NULL, NULL, NULL)), exc |-> ""]

\* line 157
NpmListCreate(tbl, id) ==
    get_or_create(tbl, [name |-> id], NpmRow(id, NULL, NULL, NULL))

RECURSIVE NpmListCreateAll(_, _)
NpmListCreateAll(tbl, ids) ==
    IF ids = <<>> THEN [tbl |-> tbl, exc |-> ""]
    ELSE LET r == NpmListCreate(tbl, Head(ids))
         IN IF r.exc # "" THEN r ELSE NpmListCreateAll(r.tbl, Tail(ids))

\* lines 150-153
fetch_npm_package_list ==
    /\ op = "npm_list"
    /\ pc = "loop"
    /\ Enter(Method("requests", "npm_all_docs", 0))
    /\ pc' = "wait"
    /\ net' = Append(net, <<"npm_all_docs", 0, TRUE>>)
    /\ UNCHANGED <<op, err, npm, pypi, db0, idx, libvars, package_json,
                   parse_failed, infovars>>

\* lines 154-157
fetch_npm_package_list_apply(s) ==
    IF IsNull(res) THEN Return(s)
    ELSE IF ~Doc.json THEN Raise(s, "ValueError")       \* res.json()
    ELSE IF IsNull(Doc.rows) THEN Raise(s, "KeyError")  \* ['rows']
    ELSE LET r == NpmListCreateAll(s.npm, Val(Doc.rows))
         IN IF r.exc # "" THEN Raise([s EXCEPT !.npm = r.tbl], r.exc)
            ELSE Return([s EXCEPT !.npm = r.tbl])

\* int() of a string of decimal digits; -1 stands for the ValueError int()
\* raises on anything else
DigitValue(c) ==
    CASE c = "0" -> 0 [] c = "1" -> 1 [] c = "2" -> 2 [] c = "3" -> 3
      [] c = "4" -> 4 [] c = "5" -> 5 [] c = "6" -> 6 [] c = "7" -> 7
      [] c = "8" -> 8 [] c = "9" -> 9 [] OTHER -> -1

RECURSIVE int(_)
int(str) ==
    IF Len(str) = 0 THEN -1
    ELSE LET d == DigitValue(str[Len(str)])
         IN IF d < 0 THEN -1
            ELSE IF Len(str) = 1 THEN d
            ELSE LET hi == int(SubSeq(str, 1, Len(str) - 1))
                 IN IF hi < 0 THEN -1 ELSE 10 * hi + d

\* line 161: int(s.replace(',', '')) if s != '' else 0
to_count(str) ==
    IF str = <<>> THEN 0 ELSE int(SelectSeq(str, LAMBDA c : c # ","))

\* json.dumps of a list of strings, as a sequence of tokens
RECURSIVE JsonItems(_)
JsonItems(list) ==
    IF list = <<>> THEN <<>>
    ELSE IF Len(list) = 1 THEN <<"\"", list[1], "\"">>
    ELSE <<"\"", list[1], "\"", ", ">> \o JsonItems(Tail(list))
JsonDumps(list) == <<"[">> \o JsonItems(list) \o <<"]">>

\* lines 162-166
fetch_npm_data ==
    /\ op = "npm_data"
    /\ pc = "loop"
    /\ idx <= Len(npm)
    /\ Enter(Method("requests", "npm_page", npm[idx].name))
    /\ pc' = "wait"
    /\ net' = Append(net, <<"npm_page", idx, TRUE>>)
    /\ UNCHANGED <<op, err, npm, pypi, db0, idx, libvars, package_json,
                   parse_failed, infovars>>

\* lines 170-178: the assignments from the parsed page
NpmAssign(row, page) ==
    [row EXCEPT !.readme = page.readme,
                !.description = page.description,
                !.day_download_count = Some(to_count(Val(page.daily))),
                !.week_download_count = Some(to_count(Val(page.weekly))),
                !.month_download_count = Some(to_count(Val(page.monthly))),
                !.dependents = Some(JsonDumps(page.dependents)),
                !.dependencies = Some(JsonDumps(page.dependencies))]

\* lines 168-179, statement by statement: page.select(...)[0] raises
\* IndexError when the selector finds nothing, int() raises ValueError.
\* The record is saved only if every assignment went through.
fetch_npm_data_apply(s) ==
    IF IsNull(res) THEN NextItem(s)
    ELSE IF IsNull(Doc.readme) THEN Raise(s, "IndexError")           \* line 170
    ELSE IF IsNull(Doc.description) THEN Raise(s, "IndexError")      \* line 171
    ELSE IF IsNull(Doc.daily) THEN Raise(s, "IndexError")            \* line 172
    ELSE IF to_count(Val(Doc.daily)) < 0 THEN Raise(s, "ValueError")
    ELSE IF IsNull(Doc.weekly) THEN Raise(s, "IndexError")           \* line 173
    ELSE IF to_count(Val(Doc.weekly)) < 0 THEN Raise(s, "ValueError")
    ELSE IF IsNull(Doc.monthly) THEN Raise(s, "IndexError")          \* line 174
    ELSE IF to_count(Val(Doc.monthly)) < 0 THEN Raise(s, "ValueError")
    ELSE NextItem([s EXCEPT !.npm[s.idx] = NpmAssign(@, Doc)])

\* line 204: link.text.replace(u'\xa0', ' ')
NormalizeName(text) ==
    [i \in 1..Len(text) |-> IF text[i] = NBSP THEN " " ELSE text[i]]

\* lines 200-205: one row of the catalog table
PypiListCreate(tbl, link) ==
    IF IsNull(link) THEN [tbl |-> tbl, exc |-> ""]
    ELSE get_or_create(tbl, [name |-> NormalizeName(Val(link))],
                       PypiRow(NormalizeName(Val(link)), NULL, NULL))

RECURSIVE PypiListCreateAll(_, _)
PypiListCreateAll(tbl, links) ==
    IF links = <<>> THEN [tbl |-> tbl, exc |-> ""]
    ELSE LET r == PypiListCreate(tbl, Head(links))
         IN IF r.exc # "" THEN r ELSE PypiListCreateAll(r.tbl, Tail(links))

\* lines 183-186
fetch_pypi_package_list ==
    /\ op = "pypi_list"
    /\ pc = "loop"
    /\ Enter(Method("requests", "pypi_index", 0))
    /\ pc' = "wait"
    /\ net' = Append(net, <<"pypi_index", 0, TRUE>>)
    /\ UNCHANGED <<op, err, npm, pypi, db0, idx, libvars, package_json,
                   parse_failed, infovars>>

\* lines 189-210
fetch_pypi_package_list_apply(s) ==
    IF IsNull(res) THEN Raise(s, "AttributeError")      \* line 189: None.content
    ELSE IF ~Doc.table THEN Raise(s, "AttributeError")  \* line 191: None.findAll
    ELSE LET r == PypiListCreateAll(s.pypi, Doc.rows)
         IN IF r.exc # "" THEN Raise([s EXCEPT !.pypi = r.tbl], r.exc)
            ELSE Return([s EXCEPT !.pypi = r.tbl])

\* line 221: p.name.replace(' ', '/').replace(u'\xa0', '/')
FormatName(name) ==
    [i \in 1..Len(name) |-> IF name[i] \in {" ", NBSP} THEN "/" ELSE name[i]]

\* lines 218-226
fetch_pypi_data ==
    /\ op = "pypi_data"
    /\ pc = "loop"
    /\ idx <= Len(pypi)
    /\ Enter(Method("requests", "pypi_json", FormatName(pypi[idx].name)))
    /\ pc' = "wait"
    /\ net' = Append(net, <<"pypi_json", idx, TRUE>>)
    /\ UNCHANGED <<op, err, npm, pypi, db0, idx, libvars, package_json,
                   parse_failed, infovars>>

\* lines 236-246: the assignments from package_info, and p.save()
PypiAssign(row, info) ==
    [row EXCEPT !.day_download_count = Some(info.last_day),
                !.week_download_count = Some(info.last_week),
                !.month_download_count = Some(info.last_month),
                !.description = Some(info.summary),
                !.readme = Some(info.description)]

\* lines 228-250.  The except clause of lines 231-232 only logs: control
\* goes on to line 234 with package_json as the last iteration left it.
fetch_pypi_data_apply(s) ==
    IF IsNull(res) THEN NextItem(s)
    ELSE LET pj == IF Doc.json THEN Some(Doc) ELSE s.package_json
             t == [s EXCEPT !.package_json = pj,
                            !.parse_failed =
                                IF Doc.json THEN @ ELSE @ \cup {s.idx}]
         IN IF IsNull(pj) THEN Raise(t, "NameError")            \* line 234
            ELSE IF IsNull(Val(pj).info) THEN Raise(t, "KeyError")
            ELSE NextItem([t EXCEPT !.pypi[s.idx] =
                                        PypiAssign(@, Val(Val(pj).info))])

\* base64.b64decode on the transport encodings the model sends
b64decode(content) ==
    CASE content = "SGVsbG8=" -> "Hello"
      [] content = "V29ybGQ=" -> "World"

\* lines 107-118
fetch_github_readmes ==
    /\ op = "gh_readmes"
    /\ pc = "loop"
    /\ idx <= Len(npm)
    /\ LET info == github_info(npm[idx].repository_url)
       IN IF info.kind = "raise"
          THEN /\ pc' = "raised"
               /\ err' = info.exc
               /\ UNCHANGED <<idx, net, mrvars>>
          ELSE IF info.kind = "none"
          THEN /\ idx' = idx + 1                       \* line 114: continue
               /\ UNCHANGED <<pc, err, net, mrvars>>
          ELSE /\ Enter(Method("slumber", "readme", <<info.user, info.repo_name>>))
               /\ pc' = "wait"
               /\ net' = Append(net, <<"readme", idx, TRUE>>)
               /\ UNCHANGED <<idx, err>>
    /\ UNCHANGED <<op, npm, pypi, db0, libvars, package_json, parse_failed, infovars>>

\* lines 119-121
fetch_github_readmes_apply(s) ==
    IF IsNull(res) THEN NextItem(s)
    ELSE IF IsNull(Doc.content) THEN Raise(s, "KeyError")
    ELSE NextItem([s EXCEPT !.npm[s.idx].readme = Some(b64decode(Val(Doc.content)))])

\* lines 125-138.  The argument of make_request is evaluated first: .get()
\* performs the request and what it returns is handed over as method.
fetch_github_stats ==
    /\ op = "gh_stats"
    /\ pc = "loop"
    /\ idx <= Len(npm)
    /\ LET info == github_info(npm[idx].repository_url)
       IN IF info.kind = "raise"
          THEN /\ pc' = "raised"
               /\ err' = info.exc
               /\ UNCHANGED <<idx, net, mrvars>>
          ELSE IF info.kind = "none"
          THEN /\ idx' = idx + 1                       \* line 132: continue
               /\ UNCHANGED <<pc, err, net, mrvars>>
          ELSE /\ net' = Append(net, <<"stats", idx, FALSE>>)
               /\ UNCHANGED idx
               /\ \/ \E e \in Permanent \cup Transient :
                        /\ pc' = "raised"
                        /\ err' = e
                        /\ UNCHANGED mrvars
                  \/ \E d \in StatsDocs :
                        /\ Enter(NotCallable(d))
                        /\ pc' = "wait"
                        /\ UNCHANGED err
    /\ UNCHANGED <<op, npm, pypi, db0, libvars, package_json, parse_failed, infovars>>

\* lines 140-146
StatsAssign(row, info) ==
    [row EXCEPT !.stargazers_count = Some(info.stargazers_count),
                !.forks_count = Some(info.forks_count),
                !.open_issues_count = Some(info.open_issues_count),
                !.subscribers_count = Some(info.subscribers_count),
                !.github_contributions_count = Some(info.github_contributions_count),
                !.has_wiki = Some(info.has_wiki)]

\* lines 139-146
fetch_github_stats_apply(s) ==
    IF IsNull(res) THEN NextItem(s)
    ELSE NextItem([s EXCEPT !.npm[s.idx] = StatsAssign(@, Doc)])

\* the rest of the caller's iteration, run on what make_request returned
Continue(s) ==
    CASE op = "lib" -> fetch_packagenames_from_libraryio_apply(s)
      [] op = "npm_list" -> fetch_npm_package_list_apply(s)
      [] op = "npm_data" -> fetch_npm_data_apply(s)
      [] op = "pypi_list" -> fetch_pypi_package_list_apply(s)
      [] op = "pypi_data" -> fetch_pypi_data_apply(s)
      [] op = "gh_readmes" -> fetch_github_readmes_apply(s)
      [] op = "gh_stats" -> fetch_github_stats_apply(s)

\* line 62: return res, and the caller goes on
make_request_return ==
    /\ mr_pc = "loop"
    /\ ~LoopGuard
    /\ mr_pc' = "returned"
    /\ LET s == Continue(Cur)
       IN /\ pc' = s.pc
          /\ err' = s.err
          /\ npm' = s.npm
          /\ pypi' = s.pypi
          /\ idx' = s.idx
          /\ package_json' = s.package_json
          /\ keep_fetching' = s.keep_fetching
          /\ page_no' = s.page_no
          /\ count_retrieved' = s.count_retrieved
          /\ parse_failed' = s.parse_failed
    /\ UNCHANGED <<op, db0, package_count, method, try_again, attempts, res, calls,
                   sleeps, fails, last, last_val, net, infovars>>

\* the fetcher's loop ends and the function returns
LoopOver ==
    CASE op = "lib" -> ~keep_fetching
      [] op = "pypi_data" -> idx > Len(pypi)
      [] op \in {"npm_data", "gh_readmes", "gh_stats"} -> idx > Len(npm)
      [] OTHER -> FALSE

finish ==
    /\ pc = "loop"
    /\ LoopOver
    /\ pc' = "done"
    /\ UNCHANGED <<op, err, npm, pypi, db0, idx, libvars, package_json, mrvars, net,
                   parse_failed, infovars>>

----------------------------------------------------------------------------
(* One run of a fetcher.                                                   *)

NpmOps == {"lib", "npm_list", "npm_data", "gh_readmes", "gh_stats"}
PypiOps == {"pypi_list", "pypi_data"}
\* --lib-package-count: -1 fetches everything
PackageCounts == {-1, 1, 2}

Idle ==
    /\ mr_pc = "idle"
    /\ method = NoMethod
    /\ try_again = FALSE
    /\ attempts = 0
    /\ res = NULL
    /\ calls = 0
    /\ sleeps = 0
    /\ fails = 0
    /\ last = ""
    /\ last_val = NULL

Init ==
    /\ op \in NpmOps \cup PypiOps
    /\ pc = "loop"
    /\ err = ""
    /\ npm \in (IF op \in NpmOps THEN TablesOf(InitialNpmRows) ELSE {<<>>})
    /\ pypi \in (IF op \in PypiOps THEN TablesOf(InitialPypiRows) ELSE {<<>>})
    /\ db0 = [npm |-> npm, pypi |-> pypi]
    /\ idx = 1
    /\ keep_fetching = TRUE
    /\ page_no = 0
    /\ count_retrieved = 0
    /\ package_count \in (IF op = "lib" THEN PackageCounts ELSE {-1})
    /\ package_json = NULL
    /\ Idle
    /\ net = <<>>
    /\ parse_failed = {}
    /\ url = <<>>
    /\ gh_info = InfoNone

Next ==
    \/ fetch_packagenames_from_libraryio
    \/ fetch_npm_package_list
    \/ fetch_npm_data
    \/ fetch_pypi_package_list
    \/ fetch_pypi_data
    \/ fetch_github_readmes
    \/ fetch_github_stats
    \/ make_request_attempt
    \/ make_request_return
    \/ finish

Spec == Init /\ [][Next]_vars

----------------------------------------------------------------------------
(* github_info on its own, over every URL of at most MaxUrlLen tokens.     *)

InitInfo ==
    /\ op = "info"
    /\ pc = "info"
    /\ err = ""
    /\ npm = <<>>
    /\ pypi = <<>>
    /\ db0 = [npm |-> npm, pypi |-> pypi]
    /\ idx = 1
    /\ keep_fetching = FALSE
    /\ page_no = 0
    /\ count_retrieved = 0
    /\ package_count = -1
    /\ package_json = NULL
    /\ Idle
    /\ net = <<>>
    /\ parse_failed = {}
    /\ url \in AllUrls
    /\ gh_info = InfoNone

github_info_call ==
    /\ pc = "info"
    /\ gh_info' = github_info(Some(url))
    /\ pc' = "done"
    /\ UNCHANGED <<op, err, npm, pypi, db0, idx, libvars, package_json, mrvars, net,
                   parse_failed, url>>

NextInfo == github_info_call

SpecInfo == InitInfo /\ [][NextInfo]_vars

----------------------------------------------------------------------------
(* Properties.                                                             *)

\* the outcomes after which a call can never succeed
FatalClass == {"status"} \cup Permanent

\* the item (page, row) the fetcher is at, as make_request was called for it
CurrentItem == IF op = "lib" THEN page_no ELSE IF op \in {"npm_list", "pypi_list"} THEN 0 ELSE idx
AtRequestedItem == Len(net) > 0 /\ net[Len(net)][2] = CurrentItem

\* C1: an attempt with a fatal-class outcome (a non-200 response, not-found,
\* server error) is the last one: the loop condition is false, nothing was
\* slept after it, and make_request returns None.  Every earlier attempt was a
\* transient failure followed by one pause, so a fatal first attempt means one
\* invocation and no retry.
C1_FatalOutcomeEndsRequest ==
    last \in FatalClass =>
        /\ ~LoopGuard
        /\ IsNull(res)
        /\ calls = fails + 1
        /\ sleeps = fails
        /\ mr_pc \in {"loop", "returned"}

C1_Witness ==
    /\ mr_pc = "returned"
    /\ last = "HttpServerError"
    /\ fails = 2
    /\ calls = 3

\* C2: a success after k transient failures, k in 0..4, is returned unchanged
\* after k + 1 invocations and k pauses.
C2_SuccessAfterTransients ==
    last = "ok" =>
        /\ ~LoopGuard
        /\ res = last_val
        /\ fails \in 0..4
        /\ calls = fails + 1
        /\ sleeps = fails

C2_Witness ==
    /\ mr_pc = "returned"
    /\ last = "ok"
    /\ fails = 4
    /\ HasStatusCode(Result)
    /\ Result.status_code = 200

\* C3: when every attempt fails with a transient error, make_request gives
\* up after 5 attempts, returns None and has paused exactly 4 times.
C3_GivesUpAfterFourPauses ==
    (mr_pc = "returned" /\ last \in Transient) =>
        /\ calls = MAX_ATTEMPTS
        /\ IsNull(res)
        /\ sleeps = MAX_ATTEMPTS - 1

\* the response make_request returned lacks a field the fetcher reads
LacksField ==
    /\ ~IsNull(res)
    /\ CASE op = "npm_list" -> Doc.json /\ IsNull(Doc.rows)
         [] op = "npm_data" -> IsNull(Doc.readme)
         [] op = "pypi_list" -> ~Doc.table
         [] op = "pypi_data" -> Doc.json /\ IsNull(Doc.info)
         [] op = "gh_readmes" -> IsNull(Doc.content)
         [] OTHER -> FALSE

\* C4: a fetcher whose request returned no result, or a response without an
\* expected field, skips the item: it does not raise.
C4_FailedItemIsSkipped ==
    (mr_pc = "returned" /\ AtRequestedItem /\ (IsNull(res) \/ LacksField)) =>
        pc # "raised"

\* the items of the page the search request returned last
LastPageItems == IF IsNull(res) THEN <<>> ELSE Doc
Cumulative ==
    IF pc = "raised" THEN count_retrieved + Len(LastPageItems) ELSE count_retrieved
MorePagesWanted ==
    /\ Len(LastPageItems) > 0
    /\ (package_count = -1 \/ Cumulative < package_count)

\* C5: fetch_packagenames_from_libraryio requests pages 0, 1, 2, ... in order;
\* it goes on to page k + 1 exactly when page k held an item and the target
\* count is -1 or not reached; every item returned has a record.
C5_PagesFollowCount ==
    (op = "lib" /\ mr_pc = "returned") =>
        /\ \A i \in 1..Len(net) : net[i][2] = i - 1
        /\ pc \in {"done", "raised"} => ~MorePagesWanted
        /\ (pc = "loop" /\ keep_fetching) => MorePagesWanted
        /\ \A i \in 1..Len(LastPageItems) : LastPageItems[i].name \in Names(npm)

\* the names a list fetch was given
ListedNames ==
    CASE op = "npm_list" /\ Doc.json /\ ~IsNull(Doc.rows) ->
            {Val(Doc.rows)[i] : i \in 1..Len(Val(Doc.rows))}
      [] op = "pypi_list" /\ Doc.table ->
            {NormalizeName(Val(Doc.rows[i])) :
                i \in {j \in 1..Len(Doc.rows) : ~IsNull(Doc.rows[j])}}
      [] op = "lib" -> {Doc[i].name : i \in 1..Len(Doc)}
      [] OTHER -> {}

\* C6: a list fetch never creates a second record for a name and never
\* changes a record that was there; given only names already there, it leaves
\* the table as it was (so does a second run over the same input).
C6_FindOrCreateKeepsRecords ==
    op \in {"lib", "npm_list", "pypi_list"} =>
        /\ NoDuplicateNames(npm)
        /\ NoDuplicateNames(pypi)
        /\ Len(db0.npm) <= Len(npm)
        /\ Len(db0.pypi) <= Len(pypi)
        /\ \A i \in 1..Len(db0.npm) : npm[i] = db0.npm[i]
        /\ \A i \in 1..Len(db0.pypi) : pypi[i] = db0.pypi[i]
        /\ (mr_pc = "returned" /\ ~IsNull(res)
                /\ ListedNames \subseteq Names(db0.npm) \cup Names(db0.pypi)) =>
              (npm = db0.npm /\ pypi = db0.pypi)

C6_Witness ==
    /\ op = "npm_list"
    /\ pc = "done"
    /\ ~IsNull(res)
    /\ ListedNames = {"a", "b"}
    /\ ListedNames \subseteq Names(db0.npm)
    /\ \E i \in 1..Len(db0.npm) : ~IsNull(db0.npm[i].repository_url)
    /\ npm = db0.npm

\* C7: github_info answers every URL: the pair (owner, rest) for a URL with
\* the marker, no identity for any other.
C7_GithubInfoIsTotal ==
    pc = "done" =>
        IF HasMarker(url)
        THEN LET parts == Split2(StripMarker(url))
             IN /\ gh_info.kind = "pair"
                /\ Len(parts) = 3 =>
                      (gh_info.user = parts[2] /\ gh_info.repo_name = parts[3])
        ELSE gh_info = InfoNone

\* C8: a package whose response did not parse as JSON keeps its record as it
\* was.
C8_ParseFailureLeavesRecord ==
    op = "pypi_data" => \A k \in parse_failed : pypi[k] = db0.pypi[k]

\* C9: the statistics request goes through make_request, and once the
\* endpoint has answered the record holds the answer's six fields.
C9_StatsAppliedThroughExecutor ==
    op = "gh_stats" =>
        /\ \A i \in 1..Len(net) : net[i][3]
        /\ (method.api = "value" /\ mr_pc # "loop") =>
              /\ pc # "raised"
              /\ npm[net[Len(net)][2]] =
                    StatsAssign(db0.npm[net[Len(net)][2]], method.arg)

NoIdentity(u) == IsNull(u) \/ ~HasMarker(Val(u))

\* C10: a record whose repository_url is absent or lacks the marker is passed
\* over: no request, no change, and the loop goes on to the next record.
C10_NoIdentityIsSkipped ==
    op \in {"gh_readmes", "gh_stats"} =>
        \A k \in 1..Len(npm) :
            NoIdentity(db0.npm[k].repository_url) =>
                /\ \A i \in 1..Len(net) : net[i][2] # k
                /\ npm[k] = db0.npm[k]
                /\ ~(pc = "raised" /\ idx = k)

====
